---- MODULE Spec2Model ----
(***************************************************************************)
(* Detection processing pipeline of mininutriscan.                         *)
(*                                                                         *)
(* The model follows app/api/detection.py (the three ingestion flows and   *)
(* the record endpoints), app/models/detection.py (the Detection methods), *)
(* app/services/ai_service.py (the analysis adapter and the rule based     *)
(* scorer) and app/services/ocr_service.py (the OCR front end).            *)
(*                                                                         *)
(* Encoding.  Python None is NoValue for numbers and NoText for strings.   *)
(* Enum members are written by their NAME ("FAILED"), raw strings by their *)
(* text ("failed"): an enum.Enum member never equals a plain string.       *)
(* Every request owns one SQLAlchemy session: obj[i] is the Detection held *)
(* by the session of request i, store[i] the committed row.                *)
(***************************************************************************)
EXTENDS Integers, Sequences, FiniteSets, TLC

\* ------------------------------------------------------------------ bounds
\* Requests in flight or answered
MaxInst == 2
\* Of these, the ones that may be runs of the persistence harness
MaxHarness == 1

Inst == 1 .. MaxInst

\* ------------------------------------------------------------ Python values
NoValue == 0 - 1
NoText == "<None>"
Absent == [absent |-> TRUE]
NoUser == "<anonymous>"
Users == {"u1", "u2"}

Truthy(text) == text # NoText /\ text # ""

\* dict.get(key, default)
Get(d, key, default) == IF key \in DOMAIN d THEN d[key] ELSE default

\* An empty dict
EmptyDict == [k \in {} |-> NoValue]

\* ----------------------------------------------------------- enumerations
PENDING == "PENDING"
PROCESSING == "PROCESSING"
COMPLETED == "COMPLETED"
FAILED == "FAILED"
CANCELLED == "CANCELLED"

DetectionStatus == {PENDING, PROCESSING, COMPLETED, FAILED, CANCELLED}

\* DetectionStatus.<member>.value; a raw string is its own text
StatusValue(s) ==
    CASE s = PENDING -> "pending"
      [] s = PROCESSING -> "processing"
      [] s = COMPLETED -> "completed"
      [] s = FAILED -> "failed"
      [] s = CANCELLED -> "cancelled"
      [] OTHER -> s

OCR_SCAN == "ocr_scan"
MANUAL_INPUT == "manual_input"
BARCODE_SCAN == "barcode_scan"

RISK_LOW == "RiskLevel.LOW"
RISK_MEDIUM == "RiskLevel.MEDIUM"
RISK_HIGH == "RiskLevel.HIGH"
RISK_UNKNOWN == "RiskLevel.UNKNOWN"

\* RiskLevel(text): the member whose value is text, ValueError otherwise
RiskLevelOf(text) ==
    CASE text = "low" -> RISK_LOW
      [] text = "medium" -> RISK_MEDIUM
      [] text = "high" -> RISK_HIGH
      [] text = "unknown" -> RISK_UNKNOWN
      [] OTHER -> "ValueError"

\* ------------------------------------------------------ the Detection model
ColumnKeys ==
    {"energy_kj", "energy_kcal", "protein", "fat", "saturated_fat", "carbohydrate",
     "sugar", "dietary_fiber", "sodium", "vitamins", "minerals", "other_nutrients"}

NoNutrients == [k \in ColumnKeys |-> NoValue]

\* A constructor that ignores the status it is given and leaves the column
\* default
NewDetectionPending(user_id, detection_type, status) ==
    [user_id |-> user_id,
     detection_type |-> detection_type,
     status |-> PENDING,
     nutrients |-> NoNutrients,
     nutrition_score |-> NoValue,
     risk_level |-> RISK_UNKNOWN,
     health_advice |-> NoText,
     error_message |-> NoText,
     completed_at |-> FALSE,
     user_rating |-> NoValue]

\* Detection(user_id=..., detection_type=..., status=...): the other columns
\* are NULL, risk_level takes its column default.
NewDetection(user_id, detection_type, status) ==
    [user_id |-> user_id,
     detection_type |-> detection_type,
     status |-> status,
     nutrients |-> NoNutrients,
     nutrition_score |-> NoValue,
     risk_level |-> RISK_UNKNOWN,
     health_advice |-> NoText,
     error_message |-> NoText,
     completed_at |-> FALSE,
     user_rating |-> NoValue]

\* update_status as it would be if it kept the status and dropped the message
UpdateStatusDropsMessage(d, status, error_message) ==
    IF status = COMPLETED
    THEN [d EXCEPT !.status = status, !.completed_at = TRUE]
    ELSE [d EXCEPT !.status = status]

\* update_status as it would be if it also cleared the owner of the record
UpdateStatusDisowns(d, status, error_message) ==
    LET d1 == [d EXCEPT !.status = status, !.user_id = NoUser] IN
    IF status = COMPLETED
    THEN [d1 EXCEPT !.completed_at = TRUE]
    ELSE IF status = FAILED /\ Truthy(error_message)
         THEN [d1 EXCEPT !.error_message = error_message]
         ELSE d1

\* Detection.update_status
UpdateStatus(d, status, error_message) ==
    LET d1 == [d EXCEPT !.status = status] IN
    IF status = COMPLETED
    THEN [d1 EXCEPT !.completed_at = TRUE]
    ELSE IF status = FAILED /\ Truthy(error_message)
         THEN [d1 EXCEPT !.error_message = error_message]
         ELSE d1

\* Detection.set_nutrition_data
SetNutritionData(d, nutrition_data) ==
    [d EXCEPT !.nutrients = [k \in ColumnKeys |-> Get(nutrition_data, k, NoValue)]]

\* Detection.set_ai_analysis
SetAiAnalysis(d, score, advice, risk_level) ==
    [d EXCEPT !.nutrition_score = score,
              !.health_advice = advice,
              !.risk_level = IF Truthy(risk_level)
                             THEN IF RiskLevelOf(risk_level) = "ValueError"
                                  THEN RISK_UNKNOWN
                                  ELSE RiskLevelOf(risk_level)
                             ELSE RISK_UNKNOWN]

\* Detection.add_user_feedback
AddUserFeedback(d, rating) ==
    [d EXCEPT !.user_rating = IF rating < 1 THEN 1 ELSE IF rating > 5 THEN 5 ELSE rating]

\* The methods the Detection class defines; submit_feedback is not one of them.
DetectionMethods ==
    {"to_dict", "update_status", "set_nutrition_data", "set_ai_analysis",
     "add_user_feedback", "toggle_favorite", "add_tag", "remove_tag",
     "calculate_nutrition_density", "is_high_sodium", "is_high_sugar", "is_high_fat"}

\* ------------------------------------------------ the rule based scorer
\* AIService._extract_nutrition_value: None when the key is missing
ExtractNutritionValue(nutrition_data, key) == Get(nutrition_data, key, NoValue)

\* A dict entry whose 'value' float() cannot convert: _extract_nutrition_value
\* raises ValueError on it
BadValue == 0 - 2

\* The keys _calculate_health_score extracts
ExtractedKeys == {"energy", "protein", "fat", "carbohydrate", "sodium"}

\* Python truth of an extracted value: None and 0 are false
HasValue(v) == v # NoValue /\ v # 0

Clamp(x) == IF x < 0 THEN 0 ELSE IF x > 100 THEN 100 ELSE x

\* The energy rule with its upper threshold at 2000 kJ
EnergyAdjustAbove2000(energy) ==
    IF ~HasValue(energy) THEN 0
    ELSE IF energy < 1000 THEN 5
    ELSE IF energy > 2000 THEN 0 - 10
    ELSE 0

EnergyAdjust(energy) ==
    IF ~HasValue(energy) THEN 0
    ELSE IF energy < 1000 THEN 5
    ELSE IF energy > 2500 THEN 0 - 10
    ELSE 0

ProteinAdjust(protein) ==
    IF ~HasValue(protein) THEN 0
    ELSE IF protein >= 10 THEN 10
    ELSE IF protein >= 5 THEN 5
    ELSE 0

FatAdjust(fat) ==
    IF ~HasValue(fat) THEN 0
    ELSE IF fat > 20 THEN 0 - 15
    ELSE IF fat > 10 THEN 0 - 5
    ELSE IF fat < 3 THEN 5
    ELSE 0

SodiumAdjust(sodium) ==
    IF ~HasValue(sodium) THEN 0
    ELSE IF sodium > 600 THEN 0 - 15
    ELSE IF sodium > 300 THEN 0 - 5
    ELSE IF sodium < 100 THEN 5
    ELSE 0

\* A scorer that charges penalties in proportion to the amounts and does not
\* clamp the sum
CalculateHealthScoreLinear(nutrition_data) ==
    70 + ProteinAdjust(ExtractNutritionValue(nutrition_data, "protein"))
       - (IF HasValue(ExtractNutritionValue(nutrition_data, "fat"))
          THEN ExtractNutritionValue(nutrition_data, "fat") ELSE 0)
       - (IF HasValue(ExtractNutritionValue(nutrition_data, "sodium"))
          THEN ExtractNutritionValue(nutrition_data, "sodium") \div 10 ELSE 0)

\* AIService._calculate_health_score: 60 when an extraction raised
CalculateHealthScore(nutrition_data) ==
    IF \E k \in ExtractedKeys : ExtractNutritionValue(nutrition_data, k) = BadValue
    THEN 60 ELSE
    Clamp(70 + EnergyAdjust(ExtractNutritionValue(nutrition_data, "energy"))
             + ProteinAdjust(ExtractNutritionValue(nutrition_data, "protein"))
             + FatAdjust(ExtractNutritionValue(nutrition_data, "fat"))
             + SodiumAdjust(ExtractNutritionValue(nutrition_data, "sodium")))

\* Bands that start just above their thresholds
DetermineRiskLevelStrict(health_score) ==
    IF health_score > 80 THEN "LOW"
    ELSE IF health_score > 60 THEN "MEDIUM"
    ELSE IF health_score > 40 THEN "HIGH"
    ELSE "VERY_HIGH"

\* AIService._determine_risk_level
DetermineRiskLevel(health_score) ==
    IF health_score >= 80 THEN "LOW"
    ELSE IF health_score >= 60 THEN "MEDIUM"
    ELSE IF health_score >= 40 THEN "HIGH"
    ELSE "VERY_HIGH"

\* ------------------------------------------------- the analysis adapter
GenericAdvice == "generic advice"
ExtractedAdvice == "advice lines of the answer"

\* What the AI provider does with one request
ProviderOutcomes == {"answer_with_advice", "plain_answer", "malformed", "client_error", "timeout"}

\* AIService._extract_advice
ExtractAdvice(outcome) ==
    IF outcome = "answer_with_advice" THEN ExtractedAdvice ELSE GenericAdvice

\* AIService.analyze_nutrition(nutrition_data), one call of _make_request
AnalyzeNutrition(nutrition_data, outcome) ==
    IF outcome \in {"answer_with_advice", "plain_answer"}
    THEN [success |-> TRUE,
          analysis |-> outcome,
          health_score |-> CalculateHealthScore(nutrition_data),
          advice |-> ExtractAdvice(outcome),
          risk_level |-> DetermineRiskLevel(CalculateHealthScore(nutrition_data))]
    ELSE [success |-> FALSE, error |-> outcome]

\* The parameters analyze_nutrition declares besides self
AnalyzeNutritionParams == {"nutrition_data"}

\* The keywords the three ingestion flows pass to analyze_nutrition
PipelineCallKeywords == {"nutrition_data", "product_info", "user_profile"}

\* A callee that accepts whatever keywords it is given (**kwargs)
CallBindsAnything(keywords, params) == TRUE

\* Python binds a call's keywords to declared parameters; any other keyword
\* is a TypeError raised before the body runs.
CallBinds(keywords, params) == keywords \subseteq params

\* --------------------------------------------------------- the OCR front end
OcrConfigs == {"none", "tencent", "alibaba"}
OcrOutcomes == {"text", "empty_text", "no_text", "error"}

\* OCRService.recognize_nutrition_label with provider "auto"; the result of
\* _tencent_ocr / _alibaba_ocr carries no "nutrition_data" key.
RecognizeNutritionLabel(config, outcome) ==
    IF config = "none"
    THEN [success |-> FALSE, error |-> "no OCR service available"]
    ELSE CASE outcome = "text" ->
                [success |-> TRUE, text |-> "label text", confidence |-> 90]
           [] outcome = "empty_text" ->
                [success |-> TRUE, text |-> "", confidence |-> 0]
           [] outcome = "no_text" ->
                [success |-> FALSE, error |-> "no text detected"]
           [] OTHER ->
                [success |-> FALSE, error |-> "OCR call failed"]

\* ------------------------------------------------------------- exceptions
OcrFailedMessage == "OCR recognition failed"
TypeErrorText == "analyze_nutrition() got an unexpected keyword argument"
AttributeErrorText == "NoneType object has no attribute age"
NoSubmitFeedbackText == "Detection object has no attribute submit_feedback"
CommitErrorText == "database error"

\* str() of an HTTPException: "<code>: <detail>", or "" with a Starlette whose
\* HTTPException defines no __str__ (it is built from keywords only).
HttpExceptionTexts == {"", "400: image recognition failed"}

NoExc == [type |-> "none", text |-> NoText, code |-> 0]
Exc(type, text, code) == [type |-> type, text |-> text, code |-> code]

\* Messages that name the stage of the pipeline that failed
StageMessages == {OcrFailedMessage, "no nutrition label detected"}

\* An adapter that posts a second request when the first one failed
RequestsPostedRetrying(outcome) ==
    IF outcome \in {"answer_with_advice", "plain_answer"} THEN 1 ELSE 2

\* The requests one analyze_nutrition call posts to the AI provider: it awaits
\* _make_request once, _make_request posts once, and both turn every failure
\* into an exception that analyze_nutrition answers with success False
RequestsPosted(outcome) == 1

\* The nutrition dicts handed to the adapter when it is called on its own
AdapterValues == {3, 25, 800}
AdapterInputs ==
    UNION {[ks -> AdapterValues] : ks \in SUBSET {"energy", "fat", "sodium"}}

\* --------------------------------------------------- the nutrient parser
\* nutrition_keywords of extract_nutrition_info: the synonyms of each
\* nutrient in the order they are declared, the Chinese ones written in pinyin
NutritionKeywords ==
    [energy |-> <<"nengliang", "reliang", "kaluli", "qianjiao", "kJ", "kcal">>,
     protein |-> <<"danbaizhi", "danbai">>,
     fat |-> <<"zhifang", "zongzhifang">>,
     carbohydrate |-> <<"tanshuihuahewu", "tanglei">>,
     sodium |-> <<"na", "yan">>,
     sugar |-> <<"tang", "tianjiatang">>]

Nutrients == DOMAIN NutritionKeywords

\* The recognized text is a run of phrases, each a label followed by what
\* stands where its amount should: digits with an optional unit of letters,
\* or something that does not start with a digit (NoValue)
MaxPhrases == 3
Labels == {"nengliang", "reliang", "zhifang", "zongzhifang", "tang", "tianjiatang", "peiliao"}
Phrases ==
    {[label |-> l, amount |-> NoValue, unit |-> NoText] : l \in Labels}
       \cup {[label |-> l, amount |-> 5, unit |-> NoText] : l \in Labels}
       \cup {[label |-> l, amount |-> 12, unit |-> "mg"] : l \in Labels}

\* The labels that end in a keyword without being it
EndsWith == {<<"zongzhifang", "zhifang">>, <<"tianjiatang", "tang">>}

\* The pattern keyword[:]*\s*(\d+(?:\.\d+)?)\s*([a-zA-Z]+)? finds the
\* keyword wherever it stands directly before digits
KeywordMatches(keyword, phrase) ==
    /\ phrase.amount # NoValue
    /\ (phrase.label = keyword \/ <<phrase.label, keyword>> \in EndsWith)

\* re.findall(pattern, all_text): the places of the matches, in text order
FindAll(keyword, text) == {n \in DOMAIN text : KeywordMatches(keyword, text[n])}

Least(S) == CHOOSE n \in S : \A m \in S : n <= m

\* A parser that takes, of all synonyms, the one matched first in the text
FirstKeywordInText(keywords, text) ==
    LET found == {j \in DOMAIN keywords : FindAll(keywords[j], text) # {}} IN
    IF found = {} THEN 0
    ELSE CHOOSE j \in found :
            \A k \in found : Least(FindAll(keywords[j], text)) < Least(FindAll(keywords[k], text))
                             \/ (Least(FindAll(keywords[j], text))
                                    = Least(FindAll(keywords[k], text)) /\ j <= k)

\* for keyword in keywords: ... if matches: ... break -- the place in the
\* list of the first keyword that has a match (0: none has)
FirstKeyword(keywords, text) ==
    LET found == {j \in DOMAIN keywords : FindAll(keywords[j], text) # {}} IN
    IF found = {} THEN 0 ELSE Least(found)

\* The entry recorded for a nutrient: value and unit of matches[0]
Extracted(nutrient, text) ==
    LET keyword == NutritionKeywords[nutrient][FirstKeyword(NutritionKeywords[nutrient], text)]
        first == text[Least(FindAll(keyword, text))] IN
    [value |-> first.amount,
     unit |-> IF Truthy(first.unit) THEN first.unit ELSE "g",
     keyword |-> keyword]

OcrFailedText == "OCR recognition failed"

\* OCRService.extract_nutrition_info
ExtractNutritionInfo(ocr_result) ==
    IF ~ocr_result.success
    THEN [success |-> FALSE, error |-> OcrFailedText]
    ELSE [success |-> TRUE,
          nutrition_info |->
             [nutrient \in {n \in Nutrients :
                               FirstKeyword(NutritionKeywords[n], ocr_result.texts) # 0}
                 |-> Extracted(nutrient, ocr_result.texts)]]

\* Every text of at most MaxPhrases phrases
Texts == UNION {[1 .. n -> Phrases] : n \in 0 .. MaxPhrases}

\* What the OCR stage hands on: a failure, or the recognized text
OcrResults ==
    {[success |-> FALSE, error |-> "failed"]}
       \cup {[success |-> TRUE, texts |-> t] : t \in Texts}

\* ------------------------------------------------------------------ state
VARIABLES
    pc,          \* pc[i]: where request i stands
    kind,        \* kind[i]: the entry point request i came through
    owner,       \* owner[i]: current_user of request i (NoUser: anonymous)
    obj,         \* obj[i]: the Detection object in the session of request i
    store,       \* store[i]: the committed detections row of request i
    exc,         \* exc[i]: the exception request i last raised
    resp,        \* resp[i]: what the caller of request i received
    trace,       \* trace[i]: the stages request i went through, in order
    ndata,       \* ndata[i]: the nutrition dict request i hands to the adapter
    scan_count,  \* scan_count[u]: the committed users.scan_count
    sess_count,  \* sess_count[i]: current_user.scan_count in the session of i
    sc_in,       \* the nutrient mapping handed to the rule based scorer
    sc_out,      \* what the scorer returned for it
    sess,        \* sess[s]: the Redis key session:<s>, with its time to live
    usess,       \* usess[u]: the Redis set user_sessions:<u>, with its time to live
    made,        \* made[s]: the user session s was created for
    sop,         \* the last SessionService call that completed
    rd,          \* rd[s]: the call on session s that is between its Redis commands
    deleted,     \* the sessions a delete_session call has returned for
    ai_in,       \* the nutrition dict a caller hands to analyze_nutrition
    ai_out,      \* what analyze_nutrition returned for it
    ai_calls,    \* the requests that call has posted to the AI provider
    p_in,        \* the OCR result handed to extract_nutrition_info
    p_out        \* what extract_nutrition_info returned for it

request_vars == <<pc, kind, owner, obj, store, exc, resp, trace, ndata, scan_count, sess_count>>
scorer_vars == <<sc_in, sc_out>>
session_vars == <<sess, usess, made, sop, rd, deleted>>
adapter_vars == <<ai_in, ai_out, ai_calls>>
parser_vars == <<p_in, p_out>>

vars == <<pc, kind, owner, obj, store, exc, resp, trace, ndata, scan_count, sess_count,
          sc_in, sc_out, sess, usess, made, sop, rd, deleted,
          ai_in, ai_out, ai_calls, p_in, p_out>>

NoResp == [kind |-> "none", code |-> 0, status |-> NoText, health_score |-> NoValue]

\* An HTTP error response (FastAPI turns a raised HTTPException into one)
HttpError(code) == [kind |-> "http_error", code |-> code, status |-> NoText,
                    health_score |-> NoValue]

\* DetectionResponse(...) built from the refreshed object
DetectionResponse(d) == [kind |-> "record", code |-> 200, status |-> StatusValue(d.status),
                         health_score |-> d.nutrition_score]

\* The amounts a nutrient mapping can carry: the thresholds of the scorer's
\* rules and their neighbours, and an entry that cannot be converted
NutrientValues == {0, 2, 3, 5, 9, 10, 12, 20, 25, 99, 100, 300, 600, 800, 999, 1000,
                   2100, 2500, 2600, BadValue}

ScoredKeys == {"energy", "protein", "fat", "sodium"}

\* Every mapping of a subset of the scored keys to amounts
ScorerInputs ==
    UNION {[keys -> NutrientValues] : keys \in SUBSET ScoredKeys}

NoScore == [score |-> NoValue, risk_level |-> NoText]

ScorerIdle == sc_in = EmptyDict /\ sc_out = NoScore

\* No analyze_nutrition call has been made
NoAnswer == [success |-> FALSE, error |-> "not called"]

AdapterIdle == ai_in = EmptyDict /\ ai_out = NoAnswer /\ ai_calls = 0

\* extract_nutrition_info has not been called
NotParsed == [success |-> FALSE, error |-> "not called"]

ParserIdle == p_in = [success |-> FALSE, error |-> "failed"] /\ p_out = NotParsed

RequestInit ==
    /\ pc = [i \in Inst |-> "idle"]
    /\ kind = [i \in Inst |-> "none"]
    /\ owner = [i \in Inst |-> NoUser]
    /\ obj = [i \in Inst |-> Absent]
    /\ store = [i \in Inst |-> Absent]
    /\ exc = [i \in Inst |-> NoExc]
    /\ resp = [i \in Inst |-> NoResp]
    /\ trace = [i \in Inst |-> << >>]
    /\ ndata = [i \in Inst |-> EmptyDict]
    /\ scan_count = [u \in Users |-> 0]
    /\ sess_count = [i \in Inst |-> 0]

\* ------------------------------------------------- the session service
\* Session ids the service can hand out (generate_session_id never repeats)
MaxSess == 2
Sid == 1 .. MaxSess

\* settings.SESSION_EXPIRE_MINUTES (60), in units of 30 minutes
DefaultExpire == 2

\* The expire_minutes a caller passes to create_session, in the same units;
\* NoValue is None
ExpireChoices == {NoValue, 1, 4}

\* (expire_minutes or default_expire_time // 60) * 60
ExpireTime(expire_minutes) ==
    IF expire_minutes = NoValue \/ expire_minutes = 0 THEN DefaultExpire ELSE expire_minutes

NoOp == [op |-> "none", user |-> NoUser, result |-> 0]

\* No call on the session is between two of its Redis commands
NoCall == [op |-> "none", stage |-> "none", user_id |-> NoUser]

SessionInit ==
    /\ sess = [s \in Sid |-> Absent]
    /\ usess = [u \in Users |-> Absent]
    /\ made = [s \in Sid |-> NoUser]
    /\ sop = NoOp
    /\ rd = [s \in Sid |-> NoCall]
    /\ deleted = {}

\* SMEMBERS user_sessions:<u>
Members(u) == IF usess[u] = Absent THEN {} ELSE usess[u].members

\* SessionService.validate_session: the key exists and is_active is true
\* (nothing in the service clears is_active)
ValidSession(s) == sess[s] # Absent

\* What SessionService.get_user_sessions returns
UserSessions(u) == {s \in Members(u) : sess[s] # Absent}

\* SessionService.create_session: SETEX of the session key, SADD to the
\* user's set and EXPIRE of that set with the expiry of this session
CreateSession(u, expire_minutes) ==
    /\ \E s \in Sid :
         /\ made[s] = NoUser
         /\ sess' = [sess EXCEPT ![s] = [user_id |-> u, ttl |-> ExpireTime(expire_minutes)]]
         /\ usess' = [usess EXCEPT ![u] = [members |-> Members(u) \cup {s},
                                           ttl |-> ExpireTime(expire_minutes)]]
         /\ made' = [made EXCEPT ![s] = u]
         /\ sop' = [op |-> "create_session", user |-> u, result |-> s]
    /\ UNCHANGED <<rd, deleted, request_vars, scorer_vars, adapter_vars, parser_vars>>

\* SETEX session:<s> default_expire_time for every live s in ids
Refreshed(ids) ==
    [s \in Sid |-> IF s \in ids /\ sess[s] # Absent
                   THEN [sess[s] EXCEPT !.ttl = DefaultExpire]
                   ELSE sess[s]]

\* SessionService.get_session (and validate_session, which calls it): a live
\* session gets the default time to live again
GetSession(s) ==
    /\ made[s] # NoUser
    /\ sess' = Refreshed({s})
    /\ sop' = [op |-> "get_session", user |-> made[s],
               result |-> IF sess[s] # Absent THEN 1 ELSE 0]
    /\ UNCHANGED <<usess, made, rd, deleted, request_vars, scorer_vars, adapter_vars, parser_vars>>

\* SessionService.get_user_sessions: get_session on every member of the set
GetUserSessions(u) ==
    /\ sess' = Refreshed(Members(u))
    /\ sop' = [op |-> "get_user_sessions", user |-> u,
               result |-> Cardinality(UserSessions(u))]
    /\ UNCHANGED <<usess, made, rd, deleted, request_vars, scorer_vars, adapter_vars, parser_vars>>

\* SREM: a set that loses its last member no longer exists
WithoutMember(u, s) ==
    IF usess[u] = Absent \/ usess[u].members \ {s} = {}
    THEN Absent
    ELSE [usess[u] EXCEPT !.members = @ \ {s}]

\* SessionService.delete_session
DeleteSession(s) ==
    /\ made[s] # NoUser
    /\ sess' = [sess EXCEPT ![s] = Absent]
    /\ usess' = IF sess[s] # Absent
                THEN [usess EXCEPT ![sess[s].user_id] = WithoutMember(sess[s].user_id, s)]
                ELSE usess
    /\ sop' = [op |-> "delete_session", user |-> made[s],
               result |-> IF sess[s] # Absent THEN 1 ELSE 0]
    /\ deleted' = deleted \cup {s}
    /\ UNCHANGED <<made, rd, request_vars, scorer_vars, adapter_vars, parser_vars>>

\* The calls that read the session key and write it back
ReadingCalls == {"get_session", "update_session"}

\* The GET of get_session, called on its own (or by validate_session) or by
\* update_session, when another worker's commands can run before its SETEX:
\* the call has found the session and holds its data
RedisGet(s, op) ==
    /\ made[s] # NoUser
    /\ rd[s] = NoCall
    /\ sess[s] # Absent
    /\ rd' = [rd EXCEPT ![s] = [op |-> op, stage |-> "got", user_id |-> sess[s].user_id]]
    /\ UNCHANGED <<sess, usess, made, sop, deleted, request_vars, scorer_vars,
                   adapter_vars, parser_vars>>

\* The SETEX that follows: get_session writes the data it read back with the
\* default time to live, and update_session then writes its updated copy
RedisSetex(s) ==
    /\ rd[s] # NoCall
    /\ sess' = [sess EXCEPT ![s] = [user_id |-> rd[s].user_id, ttl |-> DefaultExpire]]
    /\ IF rd[s].op = "update_session" /\ rd[s].stage = "got"
       THEN /\ rd' = [rd EXCEPT ![s].stage = "refreshed"]
            /\ sop' = sop
       ELSE /\ rd' = [rd EXCEPT ![s] = NoCall]
            /\ sop' = [op |-> rd[s].op, user |-> rd[s].user_id, result |-> 1]
    /\ UNCHANGED <<usess, made, deleted, request_vars, scorer_vars,
                   adapter_vars, parser_vars>>

\* The members of the user's set that delete_user_sessions deletes
LogoutTargets(u) == Members(u)

\* A logout that forgets the members it reads
LogoutTargetsNone(u) == {}

\* SessionService.delete_user_sessions: DEL of the session key of every member
\* of the user's set, then DEL of the set
DeleteUserSessions(u) ==
    /\ sess' = [s \in Sid |-> IF s \in LogoutTargets(u) THEN Absent ELSE sess[s]]
    /\ usess' = [usess EXCEPT ![u] = Absent]
    /\ sop' = [op |-> "delete_user_sessions", user |-> u,
               result |-> Cardinality({s \in LogoutTargets(u) : sess[s] # Absent})]
    /\ UNCHANGED <<made, rd, deleted, request_vars, scorer_vars, adapter_vars, parser_vars>>

\* One unit of time passes in Redis: every key loses one unit of its time to
\* live, and a key whose time is up is gone
Aged(key) ==
    IF key = Absent THEN Absent
    ELSE IF key.ttl <= 1 THEN Absent
    ELSE [key EXCEPT !.ttl = @ - 1]

Tick ==
    /\ \E s \in Sid : sess[s] # Absent
    /\ sess' = [s \in Sid |-> Aged(sess[s])]
    /\ usess' = [u \in Users |-> Aged(usess[u])]
    /\ UNCHANGED <<made, sop, rd, deleted, request_vars, scorer_vars, adapter_vars, parser_vars>>

Init == RequestInit /\ ScorerIdle /\ SessionInit /\ AdapterIdle /\ ParserIdle

\* db.rollback(): the session forgets what it has not committed
Rollback(i) == store[i]

\* How the commit of an UPDATE of row i can end: it raises when the store
\* fails, and always when the row has been deleted meanwhile.
CommitOutcomes(i) == IF store[i] = Absent THEN {FALSE} ELSE BOOLEAN

\* What validate_file / save_uploaded_file / save_base64_image make of an input
UploadCases == {"ok", "too_large", "bad_extension", "save_error"}
Base64Cases == {"ok", "invalid_image", "decode_error"}

\* The HTTPException each rejected input raises
RejectCode(case) ==
    CASE case = "too_large" -> 413
      [] case = "bad_extension" -> 400
      [] case = "invalid_image" -> 400
      [] case = "missing" -> 400
      [] OTHER -> 500

\* A flow that adds and commits its Detection before it looks at the input
RejectedRowCreated(u) == NewDetection(u, OCR_SCAN, FAILED)

\* The detections row of a request whose input was rejected: validate_file,
\* save_uploaded_file and save_base64_image raise before Detection(...) is
\* built, so there is none
RejectedRow(u) == Absent

\* What the manual-input form can carry (NutritionData.dict(exclude_unset=True))
ManualInputs ==
    {EmptyDict,
     [protein |-> 12, fat |-> 25, sodium |-> 800, energy_kj |-> 2100],
     [energy_kcal |-> 250, carbohydrates |-> 30, sugars |-> 5]}

\* The mock product of barcode_detection
BarcodeNutrition ==
    [energy_kcal |-> 250, protein |-> 8, fat |-> 12, carbohydrates |-> 30, sodium |-> 500]

\* The first commit of a new Detection failed: the outer handler rolls back
\* and answers 500; nothing was written.
CreateFailed(i, k, u) ==
    /\ UNCHANGED ndata
    /\ pc' = [pc EXCEPT ![i] = "done"]
    /\ kind' = [kind EXCEPT ![i] = k]
    /\ owner' = [owner EXCEPT ![i] = u]
    /\ exc' = [exc EXCEPT ![i] = Exc("SQLAlchemyError", CommitErrorText, 0)]
    /\ resp' = [resp EXCEPT ![i] = HttpError(500)]
    /\ trace' = [trace EXCEPT ![i] = <<"commit_failed">>]
    /\ UNCHANGED <<obj, store>>

\* The new Detection was added, committed and refreshed
Created(i, k, u, d, nd, next) ==
    /\ ndata' = [ndata EXCEPT ![i] = nd]
    /\ pc' = [pc EXCEPT ![i] = next]
    /\ kind' = [kind EXCEPT ![i] = k]
    /\ owner' = [owner EXCEPT ![i] = u]
    /\ obj' = [obj EXCEPT ![i] = d]
    /\ store' = [store EXCEPT ![i] = d]
    /\ trace' = [trace EXCEPT ![i] = <<"created">>]
    /\ UNCHANGED <<exc, resp>>

\* upload_image_detection / analyze_base64_image up to the first commit of
\* _process_image_detection
StartImage(i) ==
    /\ UNCHANGED <<scorer_vars, session_vars, adapter_vars, parser_vars>>
    /\ pc[i] = "idle"
    /\ \E k \in {"upload", "base64"} :
       \E u \in (IF k = "upload" THEN Users ELSE Users \cup {NoUser}) :
       \E case \in (IF k = "upload" THEN UploadCases ELSE Base64Cases) :
         /\ sess_count' = [sess_count EXCEPT ![i] = IF u = NoUser THEN 0 ELSE scan_count[u]]
         /\ IF case # "ok"
            THEN /\ pc' = [pc EXCEPT ![i] = "done"]
                 /\ kind' = [kind EXCEPT ![i] = k]
                 /\ owner' = [owner EXCEPT ![i] = u]
                 /\ exc' = [exc EXCEPT ![i] = Exc("HTTPException", NoText, RejectCode(case))]
                 /\ resp' = [resp EXCEPT ![i] = HttpError(RejectCode(case))]
                 /\ trace' = [trace EXCEPT ![i] = <<"rejected">>]
                 /\ store' = [store EXCEPT ![i] = RejectedRow(u)]
                 /\ UNCHANGED <<obj, ndata>>
            ELSE \E committed \in BOOLEAN :
                   IF committed
                   THEN Created(i, k, u, NewDetection(u, OCR_SCAN, PROCESSING), EmptyDict, "ocr")
                   ELSE CreateFailed(i, k, u)
    /\ UNCHANGED scan_count

\* manual_input_detection up to its first commit
StartManual(i) ==
    /\ UNCHANGED <<scorer_vars, session_vars, adapter_vars, parser_vars>>
    /\ pc[i] = "idle"
    /\ \E u \in Users, nd \in ManualInputs, committed \in BOOLEAN :
         /\ sess_count' = [sess_count EXCEPT ![i] = scan_count[u]]
         /\ IF committed
            THEN Created(i, "manual", u,
                         SetNutritionData(NewDetection(u, MANUAL_INPUT, PROCESSING), nd),
                         nd, "analyze")
            ELSE CreateFailed(i, "manual", u)
    /\ UNCHANGED scan_count

\* barcode_detection up to its first commit
StartBarcode(i) ==
    /\ UNCHANGED <<scorer_vars, session_vars, adapter_vars, parser_vars>>
    /\ pc[i] = "idle"
    /\ \E u \in Users, committed \in BOOLEAN :
         /\ sess_count' = [sess_count EXCEPT ![i] = scan_count[u]]
         /\ IF committed
            THEN Created(i, "barcode", u, NewDetection(u, BARCODE_SCAN, PROCESSING),
                         BarcodeNutrition, "analyze")
            ELSE CreateFailed(i, "barcode", u)
    /\ UNCHANGED scan_count

\* The request raised e inside the inner try: the inner handler runs next
Raise(i, d, e, events) ==
    /\ pc' = [pc EXCEPT ![i] = "handler"]
    /\ obj' = [obj EXCEPT ![i] = d]
    /\ exc' = [exc EXCEPT ![i] = e]
    /\ trace' = [trace EXCEPT ![i] = trace[i] \o events]

\* _process_image_detection, the OCR call and what follows it up to the
\* adapter call
OcrStep(i) ==
    /\ UNCHANGED <<scorer_vars, session_vars, adapter_vars, parser_vars>>
    /\ pc[i] = "ocr"
    /\ \E config \in OcrConfigs, outcome \in OcrOutcomes :
         LET ocr_result == RecognizeNutritionLabel(config, outcome) IN
         IF ~Get(ocr_result, "success", FALSE)
         THEN LET d == UpdateStatus(obj[i], FAILED, OcrFailedMessage) IN
              /\ UNCHANGED ndata
              /\ \E committed \in CommitOutcomes(i) :
                IF committed
                THEN /\ store' = [store EXCEPT ![i] = d]
                     /\ \E text \in HttpExceptionTexts :
                          Raise(i, d, Exc("HTTPException", text, 400),
                                <<"ocr_call", "ocr_failed">>)
                ELSE /\ store' = store
                     /\ Raise(i, d, Exc("SQLAlchemyError", CommitErrorText, 0),
                              <<"ocr_call", "ocr_failed", "commit_failed">>)
         ELSE LET nutrition_data == Get(ocr_result, "nutrition_data", EmptyDict) IN
              /\ obj' = [obj EXCEPT ![i] = IF nutrition_data # EmptyDict
                                           THEN SetNutritionData(obj[i], nutrition_data)
                                           ELSE obj[i]]
              /\ ndata' = [ndata EXCEPT ![i] = nutrition_data]
              /\ pc' = [pc EXCEPT ![i] = "analyze"]
              /\ trace' = [trace EXCEPT ![i] = trace[i] \o <<"ocr_call", "parsed">>]
              /\ UNCHANGED <<store, exc>>
    /\ UNCHANGED <<kind, owner, resp, scan_count, sess_count>>

\* The three flows from the adapter call to the returned DetectionResponse
AnalyzeStep(i) ==
    /\ UNCHANGED <<scorer_vars, session_vars, adapter_vars, parser_vars>>
    /\ pc[i] = "analyze"
    /\ LET d0 == IF kind[i] = "barcode"
                 THEN SetNutritionData(obj[i], BarcodeNutrition)
                 ELSE obj[i] IN
       IF owner[i] = NoUser
       THEN \* current_user.age with current_user None
            /\ Raise(i, d0, Exc("AttributeError", AttributeErrorText, 0), <<"analyze_raised">>)
            /\ UNCHANGED <<store, resp, scan_count, sess_count>>
       ELSE IF ~CallBinds(PipelineCallKeywords, AnalyzeNutritionParams)
       THEN /\ Raise(i, d0, Exc("TypeError", TypeErrorText, 0), <<"analyze_raised">>)
            /\ UNCHANGED <<store, resp, scan_count, sess_count>>
       ELSE \E outcome \in ProviderOutcomes :
            LET ai_analysis == AnalyzeNutrition(ndata[i], outcome)
                d1 == IF ai_analysis.success
                      THEN SetAiAnalysis(d0, ai_analysis.health_score, ai_analysis.advice,
                                         ai_analysis.risk_level)
                      ELSE d0
                d2 == UpdateStatus(d1, COMPLETED, NoText) IN
            /\ sess_count' = [sess_count EXCEPT ![i] = sess_count[i] + 1]
            /\ \E committed \in CommitOutcomes(i) :
                 IF committed
                 THEN /\ store' = [store EXCEPT ![i] = d2]
                      /\ obj' = [obj EXCEPT ![i] = d2]
                      /\ scan_count' = [scan_count EXCEPT ![owner[i]] = sess_count[i] + 1]
                      /\ resp' = [resp EXCEPT ![i] = DetectionResponse(d2)]
                      /\ pc' = [pc EXCEPT ![i] = "done"]
                      /\ trace' = [trace EXCEPT ![i] = trace[i] \o <<"ai_call", "persisted">>]
                      /\ exc' = exc
                 ELSE /\ Raise(i, d2, Exc("SQLAlchemyError", CommitErrorText, 0),
                               <<"ai_call", "commit_failed">>)
                      /\ UNCHANGED <<store, resp, scan_count>>
    /\ UNCHANGED <<kind, owner, ndata>>

\* The inner handler as it would be if it marked the record cancelled
HandlerStatusCancelled(k) == CANCELLED

\* The status the inner handler of each flow passes to update_status
HandlerStatus(k) == IF k = "barcode" THEN "failed" ELSE FAILED

\* The answer of the outer handlers to an exception e leaving the inner try
OuterResponse(k, e) ==
    IF k \in {"upload", "base64"} /\ e.type = "HTTPException"
    THEN HttpError(e.code)
    ELSE HttpError(500)

\* The inner "except Exception" of the three flows, then the outer handlers
HandleException(i) ==
    /\ UNCHANGED <<scorer_vars, session_vars, adapter_vars, parser_vars>>
    /\ pc[i] = "handler"
    /\ LET d == UpdateStatus(obj[i], HandlerStatus(kind[i]), exc[i].text) IN
       \E committed \in CommitOutcomes(i) :
         IF committed
         THEN /\ store' = [store EXCEPT ![i] = d]
              /\ obj' = [obj EXCEPT ![i] = d]
              /\ resp' = [resp EXCEPT ![i] = OuterResponse(kind[i], exc[i])]
              /\ trace' = [trace EXCEPT ![i] = Append(trace[i], "handled")]
              /\ exc' = exc
         ELSE /\ store' = store
              /\ obj' = [obj EXCEPT ![i] = Rollback(i)]
              /\ resp' = [resp EXCEPT ![i] = HttpError(500)]
              /\ trace' = [trace EXCEPT ![i] = trace[i] \o <<"commit_failed", "handled">>]
              /\ exc' = [exc EXCEPT ![i] = Exc("SQLAlchemyError", CommitErrorText, 0)]
    /\ pc' = [pc EXCEPT ![i] = "done"]
    /\ UNCHANGED <<kind, owner, ndata, scan_count, sess_count>>

\* ------------------------------------------------------ record endpoints
\* A lookup by id alone
FindAny(detection_id, u) == store[detection_id]

\* db.query(Detection).filter(id == detection_id, user_id == current_user.id).first()
FindOwned(detection_id, u) ==
    IF store[detection_id] # Absent /\ store[detection_id].user_id = u
    THEN store[detection_id]
    ELSE Absent

\* submit_detection_feedback: 404 when the lookup finds nothing; otherwise
\* detection.submit_feedback raises AttributeError (Detection defines
\* add_user_feedback, not submit_feedback), the handler rolls back and
\* answers 500.  Nothing is written either way.
FeedbackAnswer(detection_id, u) ==
    IF FindOwned(detection_id, u) = Absent THEN 404
    ELSE IF "submit_feedback" \in DetectionMethods THEN 200
    ELSE 500

SubmitFeedback(detection_id, u) ==
    /\ UNCHANGED <<scorer_vars, session_vars, adapter_vars, parser_vars>>
    /\ pc[detection_id] # "idle"
    /\ IF FeedbackAnswer(detection_id, u) = 200
       THEN \E rating \in 1 .. 5, committed \in CommitOutcomes(detection_id) :
              store' = [store EXCEPT ![detection_id] =
                          IF committed THEN AddUserFeedback(store[detection_id], rating)
                          ELSE store[detection_id]]
       ELSE store' = store
    /\ UNCHANGED <<pc, kind, owner, obj, exc, resp, trace, ndata, scan_count, sess_count>>

\* get_detection_detail: 404 when the lookup finds nothing, else the record
DetailAnswer(detection_id, u) ==
    IF FindOwned(detection_id, u) = Absent THEN 404 ELSE 200

\* The answer of delete_detection, given how its commit ends
DeleteAnswer(detection_id, u, committed) ==
    IF FindOwned(detection_id, u) = Absent THEN 404
    ELSE IF committed THEN 200
    ELSE 500

\* The status filters a caller can hand to get_detection_history: none, the
\* value of a member, or a text that is no member's value
StatusFilters == {NoText, "processing", "completed", "failed", "done"}

\* get_detection_history: the ids of the rows of user u, narrowed by the status
\* filter; an invalid filter returns the empty list
History(u, status) ==
    IF status = NoText
    THEN {id \in Inst : FindOwned(id, u) # Absent}
    ELSE IF status \notin {StatusValue(m) : m \in DetectionStatus}
    THEN {}
    ELSE {id \in Inst : FindOwned(id, u) # Absent
                        /\ \E m \in DetectionStatus :
                              StatusValue(m) = status /\ store[id].status = m}

\* get_detection_detail and get_detection_history read and write nothing
GetDetectionDetail(detection_id, u) ==
    /\ pc[detection_id] # "idle"
    /\ DetailAnswer(detection_id, u) \in {200, 404}
    /\ UNCHANGED vars

GetDetectionHistory(u, status) ==
    /\ History(u, status) \subseteq Inst
    /\ UNCHANGED vars

\* delete_detection
DeleteDetection(detection_id, u) ==
    /\ UNCHANGED <<scorer_vars, session_vars, adapter_vars, parser_vars>>
    /\ FindOwned(detection_id, u) # Absent
    /\ \E committed \in BOOLEAN :
         store' = [store EXCEPT ![detection_id] = IF committed THEN Absent ELSE @]
    /\ UNCHANGED <<pc, kind, owner, obj, exc, resp, trace, ndata, scan_count, sess_count>>

\* ------------------------------------------ direct users of the model class
\* DataPersistenceTest.test_detection_creation: a record built with status
\* PENDING, added and committed
HarnessCreate(i) ==
    /\ UNCHANGED <<scorer_vars, session_vars, adapter_vars, parser_vars>>
    /\ pc[i] = "idle"
    /\ \E u \in Users, committed \in BOOLEAN :
         IF committed
         THEN Created(i, "harness", u, NewDetection(u, OCR_SCAN, PENDING), EmptyDict, "harness")
         ELSE /\ pc' = [pc EXCEPT ![i] = "done"]
              /\ kind' = [kind EXCEPT ![i] = "harness"]
              /\ owner' = [owner EXCEPT ![i] = u]
              /\ trace' = [trace EXCEPT ![i] = <<"commit_failed">>]
              /\ UNCHANGED <<obj, store, exc, resp, ndata>>
    /\ UNCHANGED <<scan_count, sess_count>>

\* A method call on the harness record, then commit and refresh; a failed
\* commit is rolled back
HarnessApply(i, d) ==
    /\ UNCHANGED <<scorer_vars, session_vars, adapter_vars, parser_vars>>
    /\ \E committed \in CommitOutcomes(i) :
         /\ store' = [store EXCEPT ![i] = IF committed THEN d ELSE @]
         /\ obj' = [obj EXCEPT ![i] = IF committed THEN d ELSE store[i]]
    /\ UNCHANGED <<pc, kind, owner, exc, resp, trace, ndata, scan_count, sess_count>>

\* The statuses callers hand to update_status: enum members, or the value
\* strings the harness and barcode_detection use
StatusArguments == DetectionStatus \cup {"processing", "completed", "failed"}

HarnessNutrition == [energy |-> 2000, protein |-> 10, fat |-> 5, carbohydrate |-> 50,
                     sodium |-> 800, sugar |-> 15, fiber |-> 3, other_nutrients |-> 60]

\* DataPersistenceTest.test_status_updates
HarnessUpdateStatus(i) ==
    /\ pc[i] = "harness"
    /\ \E status \in StatusArguments, message \in {NoText, "test error"} :
         HarnessApply(i, UpdateStatus(obj[i], status, message))

\* DataPersistenceTest.test_nutrition_data_persistence
HarnessSetNutritionData(i) ==
    /\ pc[i] = "harness"
    /\ \E nd \in {HarnessNutrition, EmptyDict} :
         HarnessApply(i, SetNutritionData(obj[i], nd))

\* DataPersistenceTest.test_ai_analysis_persistence
HarnessSetAiAnalysis(i) ==
    /\ pc[i] = "harness"
    /\ HarnessApply(i, SetAiAnalysis(obj[i], 75, "eat in moderation", "medium"))

\* ---------------------------------------------------------- specifications
Pipeline(i) ==
    \/ StartImage(i)
    \/ StartManual(i)
    \/ StartBarcode(i)
    \/ OcrStep(i)
    \/ AnalyzeStep(i)
    \/ HandleException(i)

Endpoints ==
    \E detection_id \in Inst, u \in Users :
       \/ SubmitFeedback(detection_id, u)
       \/ DeleteDetection(detection_id, u)
       \/ GetDetectionDetail(detection_id, u)
       \/ \E status \in StatusFilters : GetDetectionHistory(u, status)

Harness(i) ==
    \/ HarnessCreate(i)
    \/ HarnessUpdateStatus(i)
    \/ HarnessSetNutritionData(i)
    \/ HarnessSetAiAnalysis(i)

\* The ingestion flows
Next == \E i \in Inst : Pipeline(i)

Spec == Init /\ [][Next]_vars

\* The ingestion flows and the record endpoints
NextApi == Next \/ Endpoints

SpecApi == Init /\ [][NextApi]_vars

\* The service together with code that drives the Detection class directly
NextOps == NextApi \/ (\E i \in 1 .. MaxHarness : Harness(i))

SpecOps == Init /\ [][NextOps]_vars

\* The rule based scorer applied to one mapping, as analyze_nutrition applies it
ScoreStep ==
    /\ sc_out = NoScore
    /\ sc_out' = [score |-> CalculateHealthScore(sc_in),
                  risk_level |-> DetermineRiskLevel(CalculateHealthScore(sc_in))]
    /\ UNCHANGED <<sc_in, request_vars, session_vars, adapter_vars, parser_vars>>

InitScorer ==
    /\ RequestInit /\ SessionInit /\ AdapterIdle /\ ParserIdle
    /\ sc_in \in ScorerInputs /\ sc_out = NoScore

SpecScorer == InitScorer /\ [][ScoreStep]_vars

\* One analyze_nutrition call on the dict ai_in, the provider answering the
\* request in one of its ways
AdapterCall ==
    /\ ai_out = NoAnswer
    /\ \E outcome \in ProviderOutcomes :
         /\ ai_calls' = ai_calls + RequestsPosted(outcome)
         /\ ai_out' = AnalyzeNutrition(ai_in, outcome)
    /\ UNCHANGED <<ai_in, request_vars, scorer_vars, session_vars, parser_vars>>

InitAdapter ==
    /\ RequestInit /\ ScorerIdle /\ SessionInit /\ ParserIdle
    /\ ai_in \in AdapterInputs /\ ai_out = NoAnswer /\ ai_calls = 0

\* The analysis adapter called on its own
SpecAdapter == InitAdapter /\ [][AdapterCall]_vars

\* extract_nutrition_info applied to the OCR result p_in
ParseStep ==
    /\ p_out = NotParsed
    /\ p_out' = ExtractNutritionInfo(p_in)
    /\ UNCHANGED <<p_in, request_vars, scorer_vars, session_vars, adapter_vars>>

InitParser ==
    /\ RequestInit /\ ScorerIdle /\ SessionInit /\ AdapterIdle
    /\ p_in \in OcrResults /\ p_out = NotParsed

\* The nutrient parser called on its own
SpecParser == InitParser /\ [][ParseStep]_vars

\* The session service over Redis
NextSession ==
    \/ \E u \in Users, expire_minutes \in ExpireChoices : CreateSession(u, expire_minutes)
    \/ \E s \in Sid : GetSession(s)
    \/ \E u \in Users : GetUserSessions(u)
    \/ \E s \in Sid : DeleteSession(s)
    \/ \E s \in Sid, op \in ReadingCalls : RedisGet(s, op)
    \/ \E s \in Sid : RedisSetex(s)
    \/ \E u \in Users : DeleteUserSessions(u)
    \/ Tick

SpecSession == Init /\ [][NextSession]_vars

\* ------------------------------------------------------------- properties
Happened(i, event) == \E n \in DOMAIN trace[i] : trace[i][n] = event

\* Request i passed input validation and its pipeline has ended
Ingested(i) == pc[i] = "done" /\ kind[i] \in {"upload", "base64", "manual", "barcode"}
               /\ ~Happened(i, "rejected")

\* No commit of request i raised
NoCommitFailed(i) == ~Happened(i, "commit_failed")

\* The inner handler of request i ran and its commit went through
HandlerCommitted(i) ==
    /\ Len(trace[i]) >= 2
    /\ trace[i][Len(trace[i])] = "handled"
    /\ trace[i][Len(trace[i]) - 1] # "commit_failed"

\* The name of a stored RiskLevel member
RiskName(member) ==
    CASE member = RISK_LOW -> "LOW"
      [] member = RISK_MEDIUM -> "MEDIUM"
      [] member = RISK_HIGH -> "HIGH"
      [] OTHER -> "UNKNOWN"

Terminal(d) == StatusValue(d.status) \in {"completed", "failed"}

\* C1: every ingestion that passes input validation (and whose commits all go
\* through) hands its caller a Detection record whose status is completed or
\* failed; no error response reaches the caller.
C1_IngestAlwaysReturnsRecord ==
    \A i \in Inst :
       (Ingested(i) /\ NoCommitFailed(i))
          => (resp[i].kind = "record" /\ resp[i].status \in {"completed", "failed"})

\* C2: whenever the adapter reports success:false for the nutrients of an
\* ingestion that reached the analysis stage, the Detection is completed and
\* carries the score and the risk level of the rule based scorer for those
\* nutrients.
C2_AdapterFailureFallsBackToScorer ==
    \A i \in Inst, outcome \in ProviderOutcomes :
       (Ingested(i) /\ NoCommitFailed(i) /\ ~Happened(i, "ocr_failed")
        /\ ~AnalyzeNutrition(ndata[i], outcome).success)
          => /\ store[i] # Absent
             /\ StatusValue(store[i].status) = "completed"
             /\ store[i].nutrition_score = CalculateHealthScore(ndata[i])
             /\ RiskName(store[i].risk_level) =
                   DetermineRiskLevel(CalculateHealthScore(ndata[i]))

\* C3: an ocr_scan ingestion whose OCR reported success:false ends with a
\* stored Detection that is failed, has no health score and has a non-empty
\* error_message (the handler's commit having gone through).
C3_OcrFailureEndsFailed ==
    \A i \in Inst :
       (pc[i] = "done" /\ Happened(i, "ocr_failed") /\ HandlerCommitted(i))
          => /\ store[i] # Absent
             /\ store[i].detection_type = OCR_SCAN
             /\ StatusValue(store[i].status) = "failed"
             /\ store[i].nutrition_score = NoValue
             /\ Truthy(store[i].error_message)

\* C3 witness: an image ingestion whose OCR failed has ended, and its stored
\* record is failed with the OCR message or the text of the raised exception.
C3_Witness ==
    \E i \in Inst :
       /\ pc[i] = "done" /\ Happened(i, "ocr_failed") /\ HandlerCommitted(i)
       /\ store[i] # Absent /\ store[i].status = FAILED
       /\ Truthy(store[i].error_message)

\* C4: in every reachable state a stored Detection has a health score exactly
\* when its status is completed.
C4_ScoreIffCompleted ==
    \A i \in Inst :
       store[i] # Absent
          => ((store[i].nutrition_score # NoValue)
                 <=> (StatusValue(store[i].status) = "completed"))

\* C5: in every reachable state a stored Detection has a non-empty
\* error_message exactly when its status is failed.
C5_ErrorMessageIffFailed ==
    \A i \in Inst :
       store[i] # Absent
          => (Truthy(store[i].error_message)
                 <=> (StatusValue(store[i].status) = "failed"))

\* C6: an image ingestion whose OCR succeeded and whose parsed nutrient
\* mapping is empty ends with a stored Detection that is failed, has no health
\* score, and whose error_message names the stage that failed.
C6_EmptyParseFailsNamingStage ==
    \A i \in Inst :
       (pc[i] = "done" /\ Happened(i, "parsed") /\ ndata[i] = EmptyDict
        /\ HandlerCommitted(i))
          => /\ store[i] # Absent
             /\ StatusValue(store[i].status) = "failed"
             /\ store[i].nutrition_score = NoValue
             /\ store[i].error_message \in StageMessages

\* C7: when an exception with a non-empty text was raised after the record
\* was created and the handler's commit went through, the stored Detection is
\* failed and its error_message is the text of that exception.
C7_ExceptionTextStored ==
    \A i \in Inst :
       (pc[i] = "done" /\ HandlerCommitted(i) /\ Truthy(exc[i].text))
          => /\ store[i] # Absent
             /\ StatusValue(store[i].status) = "failed"
             /\ store[i].error_message = exc[i].text

\* C8: once the request that created a Detection has ended, the stored
\* Detection is completed or failed, whatever failed on the way (provider,
\* exception, commit).
C8_EndedRequestLeavesTerminalRecord ==
    \A i \in Inst :
       (pc[i] = "done" /\ store[i] # Absent) => Terminal(store[i])

\* The status of record i changes in this step
StatusChanges(i) ==
    /\ store[i] # Absent /\ store'[i] # Absent
    /\ StatusValue(store'[i].status) # StatusValue(store[i].status)

\* Record i is stored for the first time in this step
Stored(i) == store[i] = Absent /\ store'[i] # Absent

C10_CompletedNutrientsFrozen ==
    [][\A i \in Inst :
          (store[i] # Absent /\ StatusValue(store[i].status) = "completed"
           /\ store'[i] # Absent)
             => store'[i].nutrients = store[i].nutrients]_vars

\* C11: the user_id of a Detection is the requester's (null for an anonymous
\* request) when the record is first stored, and no later step changes it, in
\* the committed row or in the object a session holds.
C11_OwnerFixedAtCreation ==
    [][\A i \in Inst :
          /\ Stored(i) => store'[i].user_id = owner'[i]
          /\ (store[i] # Absent /\ store'[i] # Absent)
                => store'[i].user_id = store[i].user_id
          /\ (obj[i] # Absent /\ obj'[i] # Absent)
                => obj'[i].user_id = obj[i].user_id]_vars

\* C11 witness: an anonymous record and a user's record have both been
\* through their pipelines and were updated by the handlers.
C11_Witness ==
    \E i, j \in Inst :
       /\ pc[i] = "done" /\ HandlerCommitted(i) /\ store[i] # Absent
       /\ store[i].user_id = NoUser
       /\ pc[j] = "done" /\ HandlerCommitted(j) /\ store[j] # Absent
       /\ store[j].user_id \in Users

\* The scorer has been applied to the mapping sc_in
Scored == sc_out # NoScore

\* C12: for every mapping of a subset of energy, protein, fat and sodium to
\* amounts, the score the rule based scorer returns lies in 0 .. 100.
C12_ScoreWithinRange ==
    Scored => (0 <= sc_out.score /\ sc_out.score <= 100)

\* C12 witness: the scorer has scored a mapping in which all four nutrients
\* draw their penalty, and one in which an extraction raised.
C12_Witness ==
    /\ Scored
    /\ DOMAIN sc_in = ScoredKeys
    /\ sc_in["energy"] = 2600 /\ sc_in["fat"] = 25 /\ sc_in["sodium"] = 800
    /\ sc_in["protein"] = 2
    /\ sc_out.score = 30

\* C13: for the mapping with no entries the scorer returns score 70 and risk
\* level unknown.
C13_EmptyMappingUnknownRisk ==
    (Scored /\ sc_in = EmptyDict)
       => (sc_out.score = 70 /\ sc_out.risk_level \in {"UNKNOWN", "unknown"})

\* The mapping of the worked example
ExampleNutrients == [sodium |-> 800, fat |-> 25, protein |-> 12, energy |-> 2100]

\* C14 (as stated): for sodium 800, fat 25, protein 12 and energy 2100 the
\* scorer returns score 40 and risk level high.
C14_ExampleScores40 ==
    (Scored /\ sc_in = ExampleNutrients)
       => (sc_out.score = 40 /\ sc_out.risk_level = "HIGH")

\* C14 (amended): for sodium 800, fat 25, protein 12 and energy 2100 the
\* scorer returns score 50 (2100 kJ is not above 2500 kJ, so energy draws no
\* penalty) and risk level high.
C14_ExampleScores50 ==
    (Scored /\ sc_in = ExampleNutrients)
       => (sc_out.score = 50 /\ sc_out.risk_level = "HIGH")

\* C14 witness: the scorer has scored the mapping of the example.
C14_Witness == Scored /\ sc_in = ExampleNutrients /\ sc_out.score = 50

\* C15: an analyze-base64 request with no authenticated user whose OCR
\* succeeded (and whose commits all went through) leaves a Detection with a
\* null owner and hands it to the caller as a completed record.
C15_AnonymousIngestionCompletes ==
    \A i \in Inst :
       (pc[i] = "done" /\ kind[i] = "base64" /\ owner[i] = NoUser
        /\ Happened(i, "parsed") /\ NoCommitFailed(i))
          => /\ store[i] # Absent
             /\ store[i].user_id = NoUser
             /\ resp[i].kind = "record"
             /\ resp[i].status = "completed"

\* The last commit request i attempted raised
LastCommitFailed(i) ==
    \/ trace[i] = <<"commit_failed">>
    \/ /\ Len(trace[i]) >= 2
       /\ trace[i][Len(trace[i])] = "handled"
       /\ trace[i][Len(trace[i]) - 1] = "commit_failed"

\* C16: when the last write of an ingestion did not happen, the caller gets an
\* error and no Detection record of that ingestion is left in the store.
C16_PersistenceFailureLeavesNoRecord ==
    \A i \in Inst :
       (pc[i] = "done" /\ kind[i] \in {"upload", "base64", "manual", "barcode"}
        /\ LastCommitFailed(i))
          => (resp[i].kind = "http_error" /\ store[i] = Absent)

\* User u owns the stored record id
Owns(u, id) == store[id] # Absent /\ store[id].user_id = u

\* C17: for every detection id and authenticated user u that does not own it,
\* detail, feedback and delete answer not-found; the history of u holds only
\* records u owns; and a created record that is gone from the store was a
\* user's, never an anonymous one.
C17_OnlyOwnerReachesRecord ==
    /\ \A id \in Inst, u \in Users :
          ~Owns(u, id)
             => /\ DetailAnswer(id, u) = 404
                /\ FeedbackAnswer(id, u) = 404
                /\ \A committed \in BOOLEAN : DeleteAnswer(id, u, committed) = 404
    /\ \A u \in Users, status \in StatusFilters :
          \A id \in History(u, status) : Owns(u, id)
    /\ \A id \in Inst :
          (store[id] = Absent /\ Happened(id, "created")) => owner[id] \in Users

\* C17 witness: an anonymous record went through its pipeline and is still
\* stored, a record of u1 was deleted by u1; u1 and u2 get not-found for the
\* anonymous record and their histories do not hold it.
C17_Witness ==
    \E a, b \in Inst :
       /\ pc[a] = "done" /\ Owns(NoUser, a)
       /\ store[b] = Absent /\ Happened(b, "created") /\ owner[b] = "u1"
       /\ DetailAnswer(a, "u1") = 404 /\ DetailAnswer(a, "u2") = 404
       /\ History("u1", NoText) = {} /\ History("u2", NoText) = {}

\* C18: right after delete_user_sessions(u) no session created for u is valid
\* and get_user_sessions(u) is empty.
C18_LogoutAllInvalidatesSessions ==
    sop.op = "delete_user_sessions"
       => /\ \A s \in Sid : made[s] = sop.user => ~ValidSession(s)
          /\ UserSessions(sop.user) = {}

\* The place of an event in the trace of request i, 0 when it did not happen
Pos(i, event) ==
    IF Happened(i, event)
    THEN CHOOSE n \in DOMAIN trace[i] :
            trace[i][n] = event /\ \A m \in DOMAIN trace[i] : trace[i][m] = event => n <= m
    ELSE 0

\* Event b happened only after event a
After(i, a, b) == Happened(i, b) => (Happened(i, a) /\ Pos(i, a) < Pos(i, b))

C22_AdapterResultPersisted ==
    \A i \in Inst, outcome \in ProviderOutcomes :
       (Ingested(i) /\ NoCommitFailed(i) /\ Happened(i, "analyze_raised")
        /\ AnalyzeNutrition(ndata[i], outcome).success)
          => /\ store[i] # Absent
             /\ StatusValue(store[i].status) = "completed"
             /\ store[i].nutrition_score = AnalyzeNutrition(ndata[i], outcome).health_score
             /\ RiskName(store[i].risk_level) = AnalyzeNutrition(ndata[i], outcome).risk_level
             /\ store[i].health_advice = AnalyzeNutrition(ndata[i], outcome).advice

\* C23: for every mapping of a subset of energy, protein, fat and sodium to
\* amounts (0 and the thresholds of the rules among them) the score is 70
\* plus the stated adjustments, clamped to 0 .. 100, and only a nutrient that
\* is missing from the mapping contributes no adjustment. The ends of the
\* stated ranges are read as the code reads them (fat 10 and sodium 300 draw
\* nothing).
C23_ScoreIsSumOfStatedAdjustments ==
    LET Amount(key) == IF key \in DOMAIN sc_in THEN sc_in[key] ELSE NoValue
        energy == Amount("energy")
        protein == Amount("protein")
        fat == Amount("fat")
        sodium == Amount("sodium")
        StatedEnergy == IF energy = NoValue THEN 0
                        ELSE IF energy < 1000 THEN 5
                        ELSE IF energy > 2500 THEN 0 - 10 ELSE 0
        StatedProtein == IF protein = NoValue THEN 0
                         ELSE IF protein >= 10 THEN 10
                         ELSE IF protein >= 5 THEN 5 ELSE 0
        StatedFat == IF fat = NoValue THEN 0
                     ELSE IF fat > 20 THEN 0 - 15
                     ELSE IF fat > 10 THEN 0 - 5
                     ELSE IF fat < 3 THEN 5 ELSE 0
        StatedSodium == IF sodium = NoValue THEN 0
                        ELSE IF sodium > 600 THEN 0 - 15
                        ELSE IF sodium > 300 THEN 0 - 5
                        ELSE IF sodium < 100 THEN 5 ELSE 0 IN
    (Scored /\ \A key \in DOMAIN sc_in : sc_in[key] # BadValue)
       => sc_out.score = Clamp(70 + StatedEnergy + StatedProtein + StatedFat + StatedSodium)

\* C24: for every mapping that is not empty the scorer's risk level follows
\* from its score s: LOW if s >= 80, MEDIUM if 60 <= s < 80, HIGH if
\* 40 <= s < 60 and VERY_HIGH if s < 40 (the scorer names the levels in upper
\* case).
C24_RiskFollowsScore ==
    (Scored /\ sc_in # EmptyDict)
       => /\ (sc_out.score >= 80) = (sc_out.risk_level = "LOW")
          /\ (60 <= sc_out.score /\ sc_out.score < 80) = (sc_out.risk_level = "MEDIUM")
          /\ (40 <= sc_out.score /\ sc_out.score < 60) = (sc_out.risk_level = "HIGH")
          /\ (sc_out.score < 40) = (sc_out.risk_level = "VERY_HIGH")

\* C24 witness: the scorer has scored a mapping whose fat and sodium both draw
\* their penalty: score 40, the lowest score of the band HIGH.
C24_Witness ==
    /\ Scored /\ DOMAIN sc_in = {"fat", "sodium"}
    /\ sc_out.score = 40 /\ sc_out.risk_level = "HIGH"

\* extract_nutrition_info has been applied to the OCR result p_in
Parsed == p_out # NotParsed

\* C25: when the text has matches for several synonyms of a nutrient, the
\* parser records for it the earliest-declared of the synonyms that match
\* anywhere, with the amount of that synonym's first match in the text;
\* where the matches of the other synonyms stand does not matter.
C25_EarliestDeclaredSynonymWins ==
    (Parsed /\ p_out.success)
       => \A nutrient \in Nutrients :
             LET keywords == NutritionKeywords[nutrient]
                 text == p_in.texts
                 matching == {j \in DOMAIN keywords :
                                 \E n \in DOMAIN text : KeywordMatches(keywords[j], text[n])} IN
             matching # {}
                => /\ nutrient \in DOMAIN p_out.nutrition_info
                   /\ \E j \in matching :
                        /\ \A k \in matching : j <= k
                        /\ p_out.nutrition_info[nutrient].keyword = keywords[j]
                        /\ \E n \in DOMAIN text :
                             /\ KeywordMatches(keywords[j], text[n])
                             /\ \A m \in 1 .. (n - 1) : ~KeywordMatches(keywords[j], text[m])
                             /\ p_out.nutrition_info[nutrient].value = text[n].amount

\* C25 witness: the text names the second synonym of energy with 12 before
\* the first synonym with 5, and the parser has recorded 5 under the first.
C25_Witness ==
    /\ Parsed /\ p_out.success
    /\ Len(p_in.texts) = 2
    /\ p_in.texts[1] = [label |-> "reliang", amount |-> 12, unit |-> "mg"]
    /\ p_in.texts[2] = [label |-> "nengliang", amount |-> 5, unit |-> NoText]
    /\ p_out.nutrition_info["energy"].value = 5
    /\ p_out.nutrition_info["energy"].keyword = "nengliang"

\* C26: for every input -- an empty text, a text without nutrient labels,
\* amounts that are no numbers, a failed OCR result -- the parser returns a
\* nutrient mapping, possibly empty, and never an error result.
C26_ParserAlwaysReturnsMapping ==
    Parsed => (p_out.success /\ "nutrition_info" \in DOMAIN p_out)

C28_UpdateStatusSetsFields ==
    \A i \in Inst :
       /\ (store[i] # Absent /\ StatusValue(store[i].status) = "completed")
             => store[i].completed_at
       /\ (kind[i] = "barcode" /\ pc[i] = "done" /\ HandlerCommitted(i)
           /\ Truthy(exc[i].text) /\ store[i] # Absent)
             => store[i].error_message = exc[i].text

\* The ingestions of user u that ended with a completed record
CompletedOf(u) ==
    {i \in Inst : /\ owner[i] = u /\ pc[i] = "done" /\ store[i] # Absent
                  /\ StatusValue(store[i].status) = "completed"}

C30_DeletedSessionStaysAbsent ==
    \A s \in deleted : sess[s] = Absent

====
